---- MODULE Spec2Model ----
(***************************************************************************)
(* Model of the chess-analyzer analysis pipeline:                          *)
(*   chessanalysis/analysis.go  AnalyzeChessGameStreaming (the pipeline)   *)
(*   chessanalysis/stockfish.go StockfishEngine (session, reader, search)  *)
(*   webapp.go                  wsHandler's forwarding goroutine (consumer)*)
(* The engine process is the environment: a UCI engine that answers each   *)
(* command as the protocol prescribes and may exit at any moment.          *)
(* Scores are kept in centipawns and probabilities in permille (the code   *)
(* divides by 100 and by 1000; both divisions are injective and carried    *)
(* by the unit).                                                           *)
(***************************************************************************)
EXTENDS Integers, Sequences, FiniteSets, TLC

\* ------------------------------------------------------------------ bounds
MaxPlies == 2     \* longest main line analysed
MaxInfo == 2      \* most info lines the engine emits in one search
Margin == 2       \* permille steps tried on either side of a classifier threshold
MaxCmds == 2      \* commands each of two concurrent calls writes to its engine
ScenarioDrop == 250  \* permille drop of the win probability in the blunder scenario
MaxRecs == 2      \* records each analysis on the websocket connection produces

\* ------------------------------------------------------- program constants
RespCap == 100    \* make(chan string, 100)
ErrCap == 1       \* make(chan error, 1)

\* ------------------------------------------------------------------- texts
\* UCI text of the played move of ply k (1-based), as moveToUci yields it.
UciPool == <<"e2e4", "e7e5", "g1f3", "b8c6">>
UciOf(k) == UciPool[((k - 1) % Len(UciPool)) + 1]

\* SAN text of the played move of ply k, as moveToSan yields it.
SanPool == <<"e4", "e5", "Nf3", "Nc6">>
SanOf(k) == SanPool[((k - 1) % Len(SanPool)) + 1]

\* UCINotation.Decode accepts texts of 4 or 5 characters naming two squares.
UciDecodable(s) == s \in {"e2e4", "e7e5", "g1f3", "b8c6", "d2d4"}

\* What the engine may print after "bestmove" when asked about ply k: the
\* played move, another move, a text that is no move, or nothing at all.
BestTexts(k) == {UciOf(k), "d2d4", "(none)", ""}

\* ---------------------------------------------------------- engine output
NoWdl == <<0, 0, 0>>
Line(kind, hasCp, cp, hasWdl, wdl, move) ==
    [kind |-> kind, hasCp |-> hasCp, cp |-> cp, hasWdl |-> hasWdl, wdl |-> wdl, move |-> move]
OtherLine == Line("other", FALSE, 0, FALSE, NoWdl, "")
ReadyLine == Line("readyok", FALSE, 0, FALSE, NoWdl, "")
BestLine(m) == Line("bestmove", FALSE, 0, FALSE, NoWdl, m)
\* info lines: "score cp 20 wdl 550 300 150" and "score cp -35" alone (the
\* bestmove line is the line with neither marker).
InfoLines ==
    { Line("info", TRUE, 20, TRUE, <<550, 300, 150>>, ""),
      Line("info", TRUE, -35, FALSE, NoWdl, "") }

\* ------------------------------------------------------- engine commands
Cmd(name, moves, arg) == [cmd |-> name, moves |-> moves, arg |-> arg]
HandshakeCmds ==
    << Cmd("uci", <<>>, ""),
       Cmd("setoption", <<>>, "Hash 128"),
       Cmd("setoption", <<>>, "Threads 4"),
       Cmd("setoption", <<>>, "Ponder false"),
       Cmd("setoption", <<>>, "UCI_ShowWDL true"),
       Cmd("isready", <<>>, "") >>

\* -------------------------------------------------------------- requests
\* A request: empty text, text chess.PGN rejects, or a main line of n plies
\* of which ply `illegal` (0: none) is rejected by PushMove.
Requests ==
    { [kind |-> "empty", n |-> 0, illegal |-> 0],
      [kind |-> "invalid", n |-> 0, illegal |-> 0] }
    \cup UNION { { [kind |-> "valid", n |-> n, illegal |-> b] : b \in 0..n } :
                  n \in 0..MaxPlies }

VARIABLES
    wire,           \* the JSON object MarshalJSON produced last
    conc,           \* two concurrent calls and their engine sessions
    ret,            \* what AnalyzeChessGame returned
    ws,             \* one websocket connection: its handler and forwarders
    pgn,            \* the request
    pc,             \* position of the pipeline (caller, then its goroutine)
    i,              \* loop index of the pipeline (plies done)
    uciMoves,       \* accumulated UCI move list
    closeFrom,      \* who called engine.Close: "init" or "defer"
    prev,           \* previous-ply score and WDL carried by the loop
    analysis,       \* the MoveAnalysis under construction
    ready,          \* StockfishEngine.ready
    lastScore, bestWdl, bestMove, result,   \* locals of analyzeLastMove
    proc,           \* engine process: "none", "running", "exited"
    stdin,          \* commands written and not yet read by the engine
    stdout,         \* lines printed and not yet scanned by readOutput
    engSearch,      \* [on, lines, sm]: the engine's search in progress
    engPos,         \* plies of the engine's current position
    responses, respClosed,      \* chan string and whether it is closed
    resultsClosed,              \* results channel closed
    errBuf, errClosed,          \* errc buffer and whether it is closed
    consumer,       \* forwarder: "ranging", "gone", "readErr", "done"
    received,       \* plies of the records the consumer received
    gotErr,         \* what the consumer read from errc
    \* history
    quitCount, waitCount,
    goInFlight,     \* go commands written and not yet answered
    goLog,          \* go commands issued for the current ply
    inLog,          \* lines consumed by each search of the current ply
    outLog,         \* lines printed by the engine since the last go
    aborted,        \* a search loop ended without a bestmove line
    writeFailed,    \* a position or go write failed
    errLog,         \* every value sent on errc
    emitted         \* plies of the records sent on results

pipeVars == <<wire, conc, ret, ws, pgn, pc, i, uciMoves, closeFrom, prev, analysis>>
evalVars == <<ready, lastScore, bestWdl, bestMove, result>>
engVars == <<proc, stdin, stdout, engSearch, engPos>>
respVars == <<responses, respClosed>>
chanVars == <<resultsClosed, errBuf, errClosed>>
consVars == <<consumer, received, gotErr>>
histVars == <<quitCount, waitCount, goInFlight, goLog, inLog, outLog,
              aborted, writeFailed, errLog, emitted>>
vars == <<pipeVars, evalVars, engVars, respVars, chanVars, consVars, histVars>>

NoResult == [BestMove |-> "", BestMoveScore |-> 0, Score |-> 0, Wdl |-> NoWdl]
NoAnalysis == [ply |-> 0]
StartPrev == [Score |-> 11, Wdl |-> NoWdl]
Idle == [on |-> FALSE, lines |-> 0, sm |-> ""]

\* No JSON object yet; two calls not yet made, no session opened.
NoWire == [classification |-> "", classificationSymbol |-> ""]
Calls == {1, 2}
NoCalls ==
    [st |-> [c \in Calls |-> "idle"],
     empty |-> [c \in Calls |-> FALSE],
     sess |-> [c \in Calls |-> 0],
     n |-> 0,
     written |-> [c \in Calls |-> 0],
     in |-> [s \in Calls |-> <<>>],
     out |-> [s \in Calls |-> <<>>],
     resp |-> [s \in Calls |-> <<>>],
     took |-> [c \in Calls |-> <<>>]]

\* AnalyzeChessGame has not returned; nothing has arrived on the connection.
\* `isNil` tells the nil slice from the empty one.
NoReturn == [returned |-> FALSE, isNil |-> TRUE, moves |-> <<>>, err |-> "nil"]
NoWs == [an |-> <<>>, log |-> <<>>]

Init ==
    /\ wire = NoWire /\ conc = NoCalls /\ ret = NoReturn /\ ws = NoWs
    /\ pgn \in Requests
    /\ pc = "call" /\ i = 0 /\ uciMoves = <<>> /\ closeFrom = "defer"
    /\ prev = StartPrev /\ analysis = NoAnalysis
    /\ ready = FALSE /\ lastScore = 0 /\ bestWdl = NoWdl /\ bestMove = ""
    /\ result = NoResult
    /\ proc = "none" /\ stdin = <<>> /\ stdout = <<>> /\ engSearch = Idle /\ engPos = 0
    /\ responses = <<>> /\ respClosed = FALSE
    /\ resultsClosed = FALSE /\ errBuf = <<>> /\ errClosed = FALSE
    /\ consumer = "ranging" /\ received = <<>> /\ gotErr = "unread"
    /\ quitCount = 0 /\ waitCount = 0 /\ goInFlight = 0
    /\ goLog = <<>> /\ inLog = <<>> /\ outLog = <<>>
    /\ aborted = FALSE /\ writeFailed = FALSE /\ errLog = <<>> /\ emitted = <<>>


\* ------------------------------------------------------------ primitives
\* sendCommand: the line reaches the engine's input unless the process has
\* exited (the write then fails; every caller drops the error).
SendCommands(cs) == stdin' = IF proc = "running" THEN stdin \o cs ELSE stdin

\* errc <- err on the buffered error channel.
ErrSend_Unbuffered(e) ==
    /\ consumer = "readErr"
    /\ errBuf' = Append(errBuf, e)
    /\ errLog' = Append(errLog, e)
ErrSend(e) ==
    /\ Len(errBuf) < ErrCap
    /\ errBuf' = Append(errBuf, e)
    /\ errLog' = Append(errLog, e)

\* position startpos [moves ...] for the position before the last move.
PositionCmd_WithLast(moves) == Cmd("position", moves, "")
PositionCmd(moves) == Cmd("position", SubSeq(moves, 1, Len(moves) - 1), "")

\* strings.Contains(response, "readyok")
IsReadyLine_AnyLine(line) == TRUE
IsReadyLine(line) == line.kind = "readyok"

\* strings.Contains(response, "score cp ") and Sscanf into the score.
ScanScore_KeepFirst(line, cur) == IF line.hasCp /\ cur = 0 THEN line.cp ELSE cur
ScanScore(line, cur) == IF line.hasCp THEN line.cp ELSE cur

\* strings.Contains(response, " wdl ") and Sscanf into win, draw, loss.
ScanWdl_Ignore(line, cur) == cur
ScanWdl(line, cur) == IF line.hasWdl THEN line.wdl ELSE cur

\* strings.HasPrefix(response, "bestmove"): the line that ends a search.
IsTerminator_AnyLine(line) == TRUE
IsTerminator(line) == line.kind = "bestmove"

\* bestMove != lastMove: the played move needs a search of its own.
NeedsSecondSearch_Always(best, last) == TRUE
NeedsSecondSearch(best, last) == best # last

\* ------------------------------------------------- AnalyzeChessGameStreaming
\* The caller's part: make the channels, short-circuit on empty input, else
\* start the goroutine.
Call_NoEmptyCheck ==
    /\ pc = "call"
    /\ pc' = "newEngine"
    /\ UNCHANGED <<wire, conc, ret, ws, pgn, i, uciMoves, closeFrom, prev, analysis>>
    /\ UNCHANGED <<evalVars, engVars, respVars, chanVars, consVars, histVars>>
Call ==
    /\ pc = "call"
    /\ IF pgn.kind = "empty"
       THEN /\ ErrSend("empty PGN")
            /\ resultsClosed' = TRUE
            /\ errClosed' = TRUE
            /\ pc' = "done"
       ELSE /\ pc' = "newEngine"
            /\ UNCHANGED <<resultsClosed, errBuf, errClosed, errLog>>
    /\ UNCHANGED <<wire, conc, ret, ws, pgn, i, uciMoves, closeFrom, prev, analysis>>
    /\ UNCHANGED <<evalVars, engVars, respVars, consVars>>
    /\ UNCHANGED <<quitCount, waitCount, goInFlight, goLog, inLog, outLog,
                   aborted, writeFailed, emitted>>

\* NewStockfishEngine up to cmd.Start and go engine.readOutput(): the pipes
\* or the start may fail, and then the goroutine sends the error and returns.
NewEngine ==
    /\ pc = "newEngine"
    /\ \E started \in BOOLEAN :
        IF started
        THEN /\ proc' = "running"
             /\ pc' = "initialize"
             /\ UNCHANGED <<errBuf, errLog>>
        ELSE /\ ErrSend("failed to initialize Stockfish")
             /\ pc' = "closeErrc"
             /\ UNCHANGED proc
    /\ UNCHANGED <<wire, conc, ret, ws, pgn, i, uciMoves, closeFrom, prev, analysis>>
    /\ UNCHANGED <<evalVars, stdin, stdout, engSearch, engPos, respVars, consVars>>
    /\ UNCHANGED <<resultsClosed, errClosed>>
    /\ UNCHANGED <<quitCount, waitCount, goInFlight, goLog, inLog, outLog,
                   aborted, writeFailed, emitted>>

\* initialize: the six handshake lines.
Initialize ==
    /\ pc = "initialize"
    /\ SendCommands(HandshakeCmds)
    /\ pc' = "awaitReady"
    /\ UNCHANGED <<wire, conc, ret, ws, pgn, i, uciMoves, closeFrom, prev, analysis>>
    /\ UNCHANGED <<evalVars, proc, stdout, engSearch, engPos, respVars, chanVars, consVars>>
    /\ UNCHANGED <<quitCount, waitCount, goInFlight, goLog, inLog, outLog,
                   aborted, writeFailed, errLog, emitted>>

\* initialize: for response := range e.responses, until one contains
\* readyok. When the channel closes first, NewStockfishEngine calls
\* engine.Close() and returns the error.
AwaitReady_NoClose ==
    /\ pc = "awaitReady"
    /\ \/ /\ responses # <<>>
          /\ responses' = Tail(responses)
          /\ IF IsReadyLine(Head(responses))
             THEN ready' = TRUE /\ pc' = "parse"
             ELSE UNCHANGED <<ready, pc>>
          /\ UNCHANGED <<errBuf, errLog>>
       \/ /\ responses = <<>> /\ respClosed
          /\ ErrSend("failed to initialize Stockfish")
          /\ pc' = "closeErrc"
          /\ UNCHANGED <<ready, responses>>
    /\ UNCHANGED <<wire, conc, ret, ws, pgn, i, uciMoves, closeFrom, prev, analysis>>
    /\ UNCHANGED <<lastScore, bestWdl, bestMove, result>>
    /\ UNCHANGED <<engVars, respClosed, consVars, resultsClosed, errClosed>>
    /\ UNCHANGED <<quitCount, waitCount, goInFlight, goLog, inLog, outLog,
                   aborted, writeFailed, emitted>>
AwaitReady ==
    /\ pc = "awaitReady"
    /\ \/ /\ responses # <<>>
          /\ responses' = Tail(responses)
          /\ IF IsReadyLine(Head(responses))
             THEN ready' = TRUE /\ pc' = "parse"
             ELSE UNCHANGED <<ready, pc>>
          /\ UNCHANGED closeFrom
       \/ /\ responses = <<>> /\ respClosed
          /\ closeFrom' = "init"
          /\ pc' = "closeQuit"
          /\ UNCHANGED <<ready, responses>>
    /\ UNCHANGED <<wire, conc, ret, ws, pgn, i, uciMoves, prev, analysis>>
    /\ UNCHANGED <<lastScore, bestWdl, bestMove, result>>
    /\ UNCHANGED <<engVars, respClosed, chanVars, consVars, histVars>>

\* chess.PGN(reader) and chess.NewGame(pgnOpt); game.Moves().
ParsePGN ==
    /\ pc = "parse"
    /\ IF pgn.kind = "invalid"
       THEN /\ ErrSend("error parsing PGN")
            /\ pc' = "closeQuit"
       ELSE /\ pc' = "loop"
            /\ UNCHANGED <<errBuf, errLog>>
    /\ UNCHANGED <<wire, conc, ret, ws, pgn, i, uciMoves, closeFrom, prev, analysis>>
    /\ UNCHANGED <<evalVars, engVars, respVars, consVars, resultsClosed, errClosed>>
    /\ UNCHANGED <<quitCount, waitCount, goInFlight, goLog, inLog, outLog,
                   aborted, writeFailed, emitted>>

\* moveNum := (i / 2) + 1
MoveNum_PerPly(k) == k + 1
MoveNum(k) == (k \div 2) + 1

\* Loop head: leave when i reaches len(moves); else PushMove, which may
\* reject the move, then append the UCI text and create the analysis entry.
ReplayPly ==
    /\ pc = "loop"
    /\ IF i >= pgn.n
       THEN /\ pc' = "closeQuit"
            /\ UNCHANGED <<uciMoves, analysis, errBuf, errLog>>
       ELSE IF pgn.illegal = i + 1
       THEN /\ ErrSend("error moving in running game")
            /\ pc' = "closeQuit"
            /\ UNCHANGED <<uciMoves, analysis>>
       ELSE /\ uciMoves' = Append(uciMoves, UciOf(i + 1))
            /\ analysis' = [ply |-> i + 1,
                            MoveNumber |-> MoveNum(i),
                            Color |-> IF i % 2 = 1 THEN "Black" ELSE "White",
                            MoveText |-> SanOf(i + 1),
                            Previous |-> prev]
            /\ pc' = "analyze"
            /\ UNCHANGED <<errBuf, errLog>>
    /\ UNCHANGED <<wire, conc, ret, ws, pgn, i, closeFrom, prev>>
    /\ UNCHANGED <<evalVars, engVars, respVars, consVars, resultsClosed, errClosed>>
    /\ UNCHANGED <<quitCount, waitCount, goInFlight, goLog, inLog, outLog,
                   aborted, writeFailed, emitted>>


\* ----------------------------------------------------------- analyzeLastMove
\* A position/go pair written for ply i + 1: what the history records.
NoteSearchStart(arg) ==
    /\ goLog' = Append(goLog, arg)
    /\ goInFlight' = IF proc = "running" THEN goInFlight + 1 ELSE goInFlight
    /\ outLog' = <<>>
    /\ writeFailed' = (writeFailed \/ proc # "running")

\* A line taken from e.responses by a search loop.
NoteLine(line) ==
    /\ inLog' = [inLog EXCEPT ![Len(inLog)] = Append(@, line)]
    /\ goInFlight' = IF line.kind = "bestmove" /\ goInFlight > 0
                     THEN goInFlight - 1 ELSE goInFlight

\* A search loop left because e.responses was closed.
NoteAbort == aborted' = TRUE

\* Entry checks, position command and go depth D of the first search.
StartSearch1 ==
    /\ pc = "analyze"
    /\ IF ~ready \/ Len(uciMoves) = 0
       THEN /\ ErrSend("analysis error")
            /\ pc' = "closeQuit"
            /\ UNCHANGED <<lastScore, bestWdl, bestMove, result, stdin>>
            /\ UNCHANGED <<goInFlight, goLog, inLog, outLog, writeFailed>>
       ELSE /\ SendCommands(<<PositionCmd(uciMoves), Cmd("go", <<>>, "")>>)
            /\ lastScore' = 0 /\ bestWdl' = NoWdl /\ bestMove' = ""
            /\ result' = NoResult
            /\ goLog' = <<"">>
            /\ goInFlight' = IF proc = "running" THEN goInFlight + 1 ELSE goInFlight
            /\ outLog' = <<>>
            /\ writeFailed' = (writeFailed \/ proc # "running")
            /\ inLog' = << <<>> >>
            /\ pc' = "await1"
            /\ UNCHANGED <<errBuf, errLog>>
    /\ UNCHANGED <<wire, conc, ret, ws, pgn, i, uciMoves, closeFrom, prev, analysis, ready>>
    /\ UNCHANGED <<proc, stdout, engSearch, engPos, respVars, consVars>>
    /\ UNCHANGED <<resultsClosed, errClosed>>
    /\ UNCHANGED <<quitCount, waitCount, aborted, emitted>>

\* First loop over e.responses: keep the latest score and WDL, stop at the
\* bestmove line or when the channel is closed.
Search1Read ==
    /\ pc = "await1"
    /\ \/ /\ responses # <<>>
          /\ LET line == Head(responses) IN
             /\ responses' = Tail(responses)
             /\ lastScore' = ScanScore(line, lastScore)
             /\ bestWdl' = ScanWdl(line, bestWdl)
             /\ NoteLine(line)
             /\ IF IsTerminator(line)
                THEN /\ bestMove' = IF line.move # "" THEN line.move ELSE bestMove
                     /\ pc' = "search1Done"
                ELSE UNCHANGED <<bestMove, pc>>
          /\ UNCHANGED aborted
       \/ /\ responses = <<>> /\ respClosed
          /\ NoteAbort
          /\ pc' = "search1Done"
          /\ UNCHANGED <<responses, lastScore, bestWdl, bestMove, inLog, goInFlight>>
    /\ UNCHANGED <<wire, conc, ret, ws, pgn, i, uciMoves, closeFrom, prev, analysis, ready, result>>
    /\ UNCHANGED <<engVars, respClosed, chanVars, consVars>>
    /\ UNCHANGED <<quitCount, waitCount, goLog, outLog, writeFailed, errLog, emitted>>

\* The played move is the best move: its score and WDL are those of the
\* first search (result.Score = result.BestMoveScore, result.WinProb =
\* bestWinProb, ...).
ReuseBest_NoWdl(r, wdl) == [r EXCEPT !.Score = r.BestMoveScore]
ReuseBest(r, wdl) == [r EXCEPT !.Score = r.BestMoveScore, !.Wdl = wdl]

\* The result is created; a played move other than the best move gets the
\* position command again and go depth D searchmoves <move>, the best move
\* takes over the first search's score and WDL.
AfterSearch1 ==
    /\ pc = "search1Done"
    /\ LET lastMove == uciMoves[Len(uciMoves)]
           r == [NoResult EXCEPT !.BestMove = bestMove, !.BestMoveScore = lastScore]
       IN IF NeedsSecondSearch(bestMove, lastMove)
          THEN /\ SendCommands(<<PositionCmd(uciMoves), Cmd("go", <<>>, lastMove)>>)
               /\ NoteSearchStart(lastMove)
               /\ inLog' = Append(inLog, <<>>)
               /\ result' = r
               /\ pc' = "await2"
          ELSE /\ result' = ReuseBest(r, bestWdl)
               /\ pc' = "build"
               /\ UNCHANGED <<stdin, goInFlight, goLog, inLog, outLog, writeFailed>>
    /\ UNCHANGED <<wire, conc, ret, ws, pgn, i, uciMoves, closeFrom, prev, analysis>>
    /\ UNCHANGED <<ready, lastScore, bestWdl, bestMove>>
    /\ UNCHANGED <<proc, stdout, engSearch, engPos, respVars, chanVars, consVars>>
    /\ UNCHANGED <<quitCount, waitCount, aborted, errLog, emitted>>

\* Second loop over e.responses, into result.Score and result.WinProb...
Search2Read ==
    /\ pc = "await2"
    /\ \/ /\ responses # <<>>
          /\ LET line == Head(responses) IN
             /\ responses' = Tail(responses)
             /\ result' = [result EXCEPT !.Score = ScanScore(line, @),
                                         !.Wdl = ScanWdl(line, @)]
             /\ NoteLine(line)
             /\ pc' = IF IsTerminator(line) THEN "build" ELSE pc
          /\ UNCHANGED aborted
       \/ /\ responses = <<>> /\ respClosed
          /\ NoteAbort
          /\ pc' = "build"
          /\ UNCHANGED <<responses, result, inLog, goInFlight>>
    /\ UNCHANGED <<wire, conc, ret, ws, pgn, i, uciMoves, closeFrom, prev, analysis>>
    /\ UNCHANGED <<ready, lastScore, bestWdl, bestMove>>
    /\ UNCHANGED <<engVars, respClosed, chanVars, consVars>>
    /\ UNCHANGED <<quitCount, waitCount, goLog, outLog, writeFailed, errLog, emitted>>


\* ------------------------------------------------------ the rest of the loop
\* SAN of a decodable best move, as AlgebraicNotation.Encode yields it.
SanOfUci(m) ==
    IF \E k \in 1..Len(UciPool) : UciPool[k] = m
    THEN SanPool[CHOOSE k \in 1..Len(UciPool) : UciPool[k] = m]
    ELSE "d4"

\* analysis.IsBestMove: the best-move text against moveToUci of the played
\* move of ply k.
IsBest_MoveText(best, k) == best = SanOf(k)
IsBest(best, k) == best = UciOf(k)

\* DefaultMoveClassifier's thresholds, in permille.
blunderWinProbThreshold == 200
blunderLossProbThreshold == 200
questionableWinProbThreshold == 100
questionableLossProbThreshold == 100
goodWinProbThreshold == 50
goodLossProbThreshold == 50
excellentWinProbThreshold == 100
excellentLossProbThreshold == 100

\* ThresholdMoveClassifier.ClassifyMove: Best for the best move, else by the
\* mover's win and loss probability deltas against the previous ply.
WinProbDelta_WhiteOnly(m) == m.Wdl[1] - m.Previous.Wdl[1]
WinProbDelta(m) ==
    IF m.Color = "White" THEN m.Wdl[1] - m.Previous.Wdl[1]
                         ELSE m.Wdl[3] - m.Previous.Wdl[3]
LossProbDelta(m) ==
    IF m.Color = "White" THEN m.Wdl[3] - m.Previous.Wdl[3]
                         ELSE m.Wdl[1] - m.Previous.Wdl[1]
ByThresholds_GoodFirst(win, loss) ==
    IF win <= 0 - blunderWinProbThreshold \/ loss >= blunderLossProbThreshold
    THEN "Blunder"
    ELSE IF win <= 0 - questionableWinProbThreshold \/ loss >= questionableLossProbThreshold
    THEN "Questionable"
    ELSE IF win >= goodWinProbThreshold \/ loss <= 0 - goodLossProbThreshold
    THEN "Good"
    ELSE IF win >= excellentWinProbThreshold \/ loss <= 0 - excellentLossProbThreshold
    THEN "Excellent"
    ELSE "Neutral"
\* The positive labels tried before the negative ones.
ByThresholds_PositiveFirst(win, loss) ==
    IF win >= excellentWinProbThreshold \/ loss <= 0 - excellentLossProbThreshold
    THEN "Excellent"
    ELSE IF win >= goodWinProbThreshold \/ loss <= 0 - goodLossProbThreshold
    THEN "Good"
    ELSE IF win <= 0 - blunderWinProbThreshold \/ loss >= blunderLossProbThreshold
    THEN "Blunder"
    ELSE IF win <= 0 - questionableWinProbThreshold \/ loss >= questionableLossProbThreshold
    THEN "Questionable"
    ELSE "Neutral"
\* A blunder recognised by the rise of the loss probability alone.
ByThresholds_LossOnlyBlunder(win, loss) ==
    IF loss >= blunderLossProbThreshold
    THEN "Blunder"
    ELSE IF win <= 0 - questionableWinProbThreshold \/ loss >= questionableLossProbThreshold
    THEN "Questionable"
    ELSE IF win >= excellentWinProbThreshold \/ loss <= 0 - excellentLossProbThreshold
    THEN "Excellent"
    ELSE IF win >= goodWinProbThreshold \/ loss <= 0 - goodLossProbThreshold
    THEN "Good"
    ELSE "Neutral"
ByThresholds(win, loss) ==
    IF win <= 0 - blunderWinProbThreshold \/ loss >= blunderLossProbThreshold
    THEN "Blunder"
    ELSE IF win <= 0 - questionableWinProbThreshold \/ loss >= questionableLossProbThreshold
    THEN "Questionable"
    ELSE IF win >= excellentWinProbThreshold \/ loss <= 0 - excellentLossProbThreshold
    THEN "Excellent"
    ELSE IF win >= goodWinProbThreshold \/ loss <= 0 - goodLossProbThreshold
    THEN "Good"
    ELSE "Neutral"
ClassifyMove_NoBestRule(m) == ByThresholds(WinProbDelta(m), LossProbDelta(m))
ClassifyMove(m) ==
    IF m.IsBestMove THEN "Best"
    ELSE ByThresholds(WinProbDelta(m), LossProbDelta(m))

\* analyzeLastMove returned a result: take the best move, skip the ply when
\* its text cannot be decoded (continue), else fill in the record.
\* if result.BestMove != "": Decode fails -> log and `continue`.
SkipsPly_Never(best) == FALSE
SkipsPly(best) == best # "" /\ ~UciDecodable(best)

BuildRecord ==
    /\ pc = "build"
    /\ IF SkipsPly(result.BestMove)
       THEN /\ i' = i + 1
            /\ pc' = "loop"
            /\ analysis' = NoAnalysis
       ELSE /\ LET filled ==
                     [ply |-> analysis.ply,
                      MoveNumber |-> analysis.MoveNumber,
                      Color |-> analysis.Color,
                      MoveText |-> analysis.MoveText,
                      Previous |-> analysis.Previous,
                      BestMove |-> result.BestMove,
                      \* BestMoveWhiteScore is assigned nowhere: the zero
                      \* value of the MoveAnalysis literal stays
                      BestMoveScore |-> 0,
                      BestMoveSAN |-> IF result.BestMove # ""
                                      THEN SanOfUci(result.BestMove) ELSE "",
                      Score |-> result.Score,
                      Wdl |-> result.Wdl,
                      IsBestMove |-> IsBest(result.BestMove, i + 1)]
               IN analysis' = filled @@ ("Classification" :> ClassifyMove(filled))
            /\ pc' = "send"
            /\ UNCHANGED i
    \* the locals of analyzeLastMove and the ply's history end here
    /\ lastScore' = 0 /\ bestWdl' = NoWdl /\ bestMove' = "" /\ result' = NoResult
    /\ goLog' = <<>> /\ inLog' = <<>> /\ outLog' = <<>>
    /\ UNCHANGED <<wire, conc, ret, ws, pgn, uciMoves, closeFrom, prev, ready>>
    /\ UNCHANGED <<engVars, respVars, chanVars, consVars>>
    /\ UNCHANGED <<quitCount, waitCount, goInFlight, aborted, writeFailed,
                   errLog, emitted>>

\* A results channel with a buffer: the send does not wait for the consumer.
SendRecord_Buffered ==
    /\ pc = "send"
    /\ emitted' = Append(emitted, analysis.ply)
    /\ prev' = [Score |-> analysis.Score, Wdl |-> analysis.Wdl]
    /\ i' = i + 1
    /\ analysis' = NoAnalysis
    /\ pc' = "loop"
    /\ UNCHANGED <<wire, conc, ret, ws, pgn, uciMoves, closeFrom>>
    /\ UNCHANGED <<evalVars, engVars, respVars, chanVars, consVars>>
    /\ UNCHANGED <<quitCount, waitCount, goInFlight, goLog, inLog, outLog,
                   aborted, writeFailed, errLog>>

\* results <- analysis on the unbuffered channel, taken by the consumer's
\* range loop; the loop variables are updated for the next iteration. The
\* forwarder returns when its WriteJSON fails.
SendRecord ==
    /\ pc = "send"
    /\ consumer = "ranging"
    /\ emitted' = Append(emitted, analysis.ply)
    /\ received' = Append(received, analysis.ply)
    /\ \E written \in BOOLEAN : consumer' = IF written THEN "ranging" ELSE "gone"
    /\ prev' = [Score |-> analysis.Score, Wdl |-> analysis.Wdl]
    /\ i' = i + 1
    /\ analysis' = NoAnalysis
    /\ pc' = "loop"
    /\ UNCHANGED <<wire, conc, ret, ws, pgn, uciMoves, closeFrom>>
    /\ UNCHANGED <<evalVars, engVars, respVars, chanVars, gotErr>>
    /\ UNCHANGED <<quitCount, waitCount, goInFlight, goLog, inLog, outLog,
                   aborted, writeFailed, errLog>>

\* ------------------------------------------------------ StockfishEngine.Close
\* A Close that waits for the process without telling it to quit.
CloseQuit_NoQuit ==
    /\ pc = "closeQuit"
    /\ pc' = "closeWait"
    /\ UNCHANGED <<wire, conc, ret, ws, pgn, i, uciMoves, closeFrom, prev, analysis>>
    /\ UNCHANGED <<evalVars, engVars, respVars, chanVars, consVars, histVars>>

\* e.sendCommand("quit")
CloseQuit ==
    /\ pc = "closeQuit"
    /\ SendCommands(<<Cmd("quit", <<>>, "")>>)
    /\ quitCount' = quitCount + 1
    /\ pc' = "closeWait"
    /\ UNCHANGED <<wire, conc, ret, ws, pgn, i, uciMoves, closeFrom, prev, analysis>>
    /\ UNCHANGED <<evalVars, proc, stdout, engSearch, engPos, respVars, chanVars, consVars>>
    /\ UNCHANGED <<waitCount, goInFlight, goLog, inLog, outLog,
                   aborted, writeFailed, errLog, emitted>>

\* e.cmd.Wait() returns once the process has exited. Called from
\* NewStockfishEngine, the error is then sent by the goroutine, which returns.
CloseWait_NoInitError ==
    /\ pc = "closeWait"
    /\ proc = "exited"
    /\ waitCount' = waitCount + 1
    /\ pc' = "closeErrc"
    /\ UNCHANGED <<wire, conc, ret, ws, pgn, i, uciMoves, closeFrom, prev, analysis>>
    /\ UNCHANGED <<evalVars, engVars, respVars, consVars, chanVars>>
    /\ UNCHANGED <<quitCount, goInFlight, goLog, inLog, outLog,
                   aborted, writeFailed, errLog, emitted>>
CloseWait ==
    /\ pc = "closeWait"
    /\ proc = "exited"
    /\ waitCount' = waitCount + 1
    /\ IF closeFrom = "init"
       THEN ErrSend("failed to initialize Stockfish")
       ELSE UNCHANGED <<errBuf, errLog>>
    /\ pc' = "closeErrc"
    /\ UNCHANGED <<wire, conc, ret, ws, pgn, i, uciMoves, closeFrom, prev, analysis>>
    /\ UNCHANGED <<evalVars, engVars, respVars, consVars, resultsClosed, errClosed>>
    /\ UNCHANGED <<quitCount, goInFlight, goLog, inLog, outLog,
                   aborted, writeFailed, emitted>>

\* The deferred closes registered the other way round: results closed first.
CloseErrc_ResultsFirst ==
    /\ pc = "closeErrc"
    /\ resultsClosed' = TRUE
    /\ pc' = "closeResults"
    /\ UNCHANGED <<wire, conc, ret, ws, pgn, i, uciMoves, closeFrom, prev, analysis>>
    /\ UNCHANGED <<evalVars, engVars, respVars, consVars, errClosed, errBuf, histVars>>

\* defer close(errc)
CloseErrc ==
    /\ pc = "closeErrc"
    /\ errClosed' = TRUE
    /\ pc' = "closeResults"
    /\ UNCHANGED <<wire, conc, ret, ws, pgn, i, uciMoves, closeFrom, prev, analysis>>
    /\ UNCHANGED <<evalVars, engVars, respVars, consVars, resultsClosed, errBuf, histVars>>

\* defer close(results)
CloseResults ==
    /\ pc = "closeResults"
    /\ resultsClosed' = TRUE
    /\ pc' = "done"
    /\ UNCHANGED <<wire, conc, ret, ws, pgn, i, uciMoves, closeFrom, prev, analysis>>
    /\ UNCHANGED <<evalVars, engVars, respVars, consVars, errBuf, errClosed, histVars>>

\* ------------------------------------------------------------------ readOutput
\* e.stdout.Scan() yields a line, sent on e.responses.
ReaderScan ==
    /\ ~respClosed
    /\ stdout # <<>>
    /\ Len(responses) < RespCap
    /\ responses' = Append(responses, Head(stdout))
    /\ stdout' = Tail(stdout)
    /\ UNCHANGED <<pipeVars, evalVars, proc, stdin, engSearch, engPos, respClosed>>
    /\ UNCHANGED <<chanVars, consVars, histVars>>

\* Scan() returns false at end of stream: close(e.responses).
ReaderEOF_NoClose ==
    /\ ~respClosed
    /\ proc = "exited"
    /\ stdout = <<>>
    /\ UNCHANGED vars
ReaderEOF ==
    /\ ~respClosed
    /\ proc = "exited"
    /\ stdout = <<>>
    /\ respClosed' = TRUE
    /\ UNCHANGED <<pipeVars, evalVars, engVars, responses, chanVars, consVars, histVars>>

\* ------------------------------------------------------------------ the engine
\* The engine takes its next command: uciok after uci, readyok after
\* isready, a new position, the start of a search, or its exit on quit.
EngineRead ==
    /\ proc = "running"
    /\ ~engSearch.on
    /\ stdin # <<>>
    /\ LET c == Head(stdin) IN
       /\ stdin' = IF c.cmd = "quit" THEN <<>> ELSE Tail(stdin)
       /\ stdout' = CASE c.cmd = "uci" -> Append(stdout, OtherLine)
                      [] c.cmd = "isready" -> Append(stdout, ReadyLine)
                      [] OTHER -> stdout
       /\ engPos' = CASE c.cmd = "position" -> Len(c.moves)
                      [] c.cmd = "quit" -> 0
                      [] OTHER -> engPos
       /\ proc' = IF c.cmd = "quit" THEN "exited" ELSE proc
       /\ IF c.cmd = "go"
          THEN engSearch' = [on |-> TRUE, lines |-> 0, sm |-> c.arg]
          ELSE UNCHANGED engSearch
    /\ UNCHANGED <<pipeVars, evalVars, respVars, chanVars, consVars, histVars>>

\* One info line of the running search.
EngineInfo ==
    /\ proc = "running"
    /\ engSearch.on /\ engSearch.lines < MaxInfo
    /\ \E l \in InfoLines :
        /\ stdout' = Append(stdout, l)
        /\ outLog' = Append(outLog, l)
    /\ engSearch' = [engSearch EXCEPT !.lines = @ + 1]
    /\ UNCHANGED <<pipeVars, evalVars, proc, stdin, engPos, respVars, chanVars, consVars>>
    /\ UNCHANGED <<quitCount, waitCount, goInFlight, goLog, inLog,
                   aborted, writeFailed, errLog, emitted>>

\* The bestmove line that ends the search; a searchmoves search can only
\* name the move it was restricted to.
EngineBestmove ==
    /\ proc = "running"
    /\ engSearch.on
    /\ \E m \in (IF engSearch.sm # "" THEN {engSearch.sm} ELSE BestTexts(engPos + 1)) :
        /\ stdout' = Append(stdout, BestLine(m))
        /\ outLog' = Append(outLog, BestLine(m))
    /\ engSearch' = Idle
    /\ UNCHANGED <<pipeVars, evalVars, proc, stdin, engPos, respVars, chanVars, consVars>>
    /\ UNCHANGED <<quitCount, waitCount, goInFlight, goLog, inLog,
                   aborted, writeFailed, errLog, emitted>>

\* The process exits on its own (crash, kill); what it had not read from its
\* input is lost with it.
EngineDie ==
    /\ proc = "running"
    /\ proc' = "exited"
    /\ engSearch' = Idle /\ engPos' = 0 /\ stdin' = <<>>
    /\ UNCHANGED <<pipeVars, evalVars, stdout, respVars, chanVars, consVars, histVars>>

\* ---------------------------------------------------------------- the consumer
\* for move := range movesChan ends when the channel is closed.
ConsumerRangeEnds_Early ==
    /\ consumer = "ranging"
    /\ consumer' = "readErr"
    /\ UNCHANGED <<pipeVars, evalVars, engVars, respVars, chanVars, received, gotErr, histVars>>
ConsumerRangeEnds ==
    /\ consumer = "ranging"
    /\ resultsClosed
    /\ consumer' = "readErr"
    /\ UNCHANGED <<pipeVars, evalVars, engVars, respVars, chanVars, received, gotErr, histVars>>

\* err := <-errChan: the buffered value, or nil from the closed channel.
ConsumerReadErr ==
    /\ consumer = "readErr"
    /\ \/ /\ errBuf # <<>>
          /\ gotErr' = Head(errBuf)
          /\ errBuf' = Tail(errBuf)
       \/ /\ errBuf = <<>> /\ errClosed
          /\ gotErr' = "nil"
          /\ UNCHANGED errBuf
    /\ consumer' = "done"
    /\ UNCHANGED <<pipeVars, evalVars, engVars, respVars, resultsClosed, errClosed, received, histVars>>

\* -------------------------------------------------------------- specification
Pipeline ==
    \/ Call \/ NewEngine \/ Initialize \/ AwaitReady \/ ParsePGN \/ ReplayPly
    \/ StartSearch1 \/ Search1Read \/ AfterSearch1 \/ Search2Read \/ BuildRecord
    \/ SendRecord \/ CloseQuit \/ CloseWait \/ CloseErrc \/ CloseResults
Reader == ReaderScan \/ ReaderEOF
Engine == EngineRead \/ EngineInfo \/ EngineBestmove
Consumer == ConsumerRangeEnds \/ ConsumerReadErr

Next == Pipeline \/ Reader \/ Engine \/ EngineDie \/ Consumer

Spec == Init /\ [][Next]_vars

\* Close called once more on a session whose Close has returned: the body
\* runs again, sendCommand("quit") (the write fails on the closed pipe and
\* the error is dropped) and e.cmd.Wait().
CloseAgain ==
    /\ pc = "done"
    /\ waitCount = 1
    /\ SendCommands(<<Cmd("quit", <<>>, "")>>)
    /\ quitCount' = quitCount + 1
    /\ waitCount' = waitCount + 1
    /\ pc' = "closedAgain"
    /\ UNCHANGED <<wire, conc, ret, ws, pgn, i, uciMoves, closeFrom, prev, analysis>>
    /\ UNCHANGED <<evalVars, proc, stdout, engSearch, engPos, respVars, chanVars, consVars>>
    /\ UNCHANGED <<goInFlight, goLog, inLog, outLog,
                   aborted, writeFailed, errLog, emitted>>

\* The pipeline followed by a client that closes the session a second time.
CloseNext == Next \/ CloseAgain
CloseSpec == Init /\ [][CloseNext]_vars

\* The Go scheduler runs every runnable goroutine, and a live engine keeps
\* answering; nothing obliges the engine to crash.
FairSpec ==
    Spec /\ WF_vars(Pipeline) /\ WF_vars(Reader) /\ WF_vars(Engine) /\ WF_vars(Consumer)


\* ------------------------------------------------------------ AnalyzeChessGame
\* The consumer is AnalyzeChessGame: it appends every record it receives,
\* then reads errc and returns.
\* results = append(results, *move)
CollectRecord == SendRecord /\ consumer' = "ranging"

\* A collector that hands back what it gathered together with the error.
CollectReturn_Partial ==
    /\ consumer = "readErr"
    /\ \/ /\ errBuf # <<>>
          /\ gotErr' = Head(errBuf)
          /\ errBuf' = Tail(errBuf)
       \/ /\ errBuf = <<>> /\ errClosed
          /\ gotErr' = "nil"
          /\ UNCHANGED errBuf
    /\ ret' = [returned |-> TRUE, isNil |-> FALSE, moves |-> received, err |-> gotErr']
    /\ consumer' = "done"
    /\ UNCHANGED <<wire, conc, ws, pgn, pc, i, uciMoves, closeFrom, prev, analysis>>
    /\ UNCHANGED <<evalVars, engVars, respVars, resultsClosed, errClosed, received, histVars>>

\* if err := <-errChan; err != nil { return nil, err }; return results, nil
CollectReturn ==
    /\ consumer = "readErr"
    /\ \/ /\ errBuf # <<>>
          /\ gotErr' = Head(errBuf)
          /\ errBuf' = Tail(errBuf)
       \/ /\ errBuf = <<>> /\ errClosed
          /\ gotErr' = "nil"
          /\ UNCHANGED errBuf
    /\ ret' = IF gotErr' # "nil"
              THEN [returned |-> TRUE, isNil |-> TRUE, moves |-> <<>>, err |-> gotErr']
              ELSE [returned |-> TRUE, isNil |-> FALSE, moves |-> received, err |-> "nil"]
    /\ consumer' = "done"
    /\ UNCHANGED <<wire, conc, ws, pgn, pc, i, uciMoves, closeFrom, prev, analysis>>
    /\ UNCHANGED <<evalVars, engVars, respVars, resultsClosed, errClosed, received, histVars>>

Streaming ==
    \/ Call \/ NewEngine \/ Initialize \/ AwaitReady \/ ParsePGN \/ ReplayPly
    \/ StartSearch1 \/ Search1Read \/ AfterSearch1 \/ Search2Read \/ BuildRecord
    \/ CollectRecord \/ CloseQuit \/ CloseWait \/ CloseErrc \/ CloseResults
Collector == ConsumerRangeEnds \/ CollectReturn

CollectNext == Streaming \/ Reader \/ Engine \/ EngineDie \/ Collector

CollectSpec ==
    Init /\ [][CollectNext]_vars
         /\ WF_vars(Streaming) /\ WF_vars(Reader) /\ WF_vars(Engine) /\ WF_vars(Collector)


\* ------------------------------------------------- the classifier on its own
\* ClassifyMove applied to a record that is not the best move, for either
\* colour and every pair of win and loss probability changes within Margin
\* permille of a threshold (or of no change), around a previous ply of
\* 500/0/500. Between two thresholds the label does not change.
BaseProb == 500
Deltas ==
    UNION { (t - Margin)..(t + Margin) :
            t \in {0 - ScenarioDrop,
                   0 - blunderWinProbThreshold, 0 - questionableWinProbThreshold,
                   0 - goodWinProbThreshold, 0, goodWinProbThreshold,
                   questionableWinProbThreshold, blunderWinProbThreshold} }
ClassifyInputs ==
    { [ply |-> 1, MoveNumber |-> 1, Color |-> c, MoveText |-> "e4",
       Previous |-> [Score |-> 0, Wdl |-> <<BaseProb, 0, BaseProb>>],
       BestMove |-> "d2d4", BestMoveScore |-> 0, BestMoveSAN |-> "d4", Score |-> 0,
       Wdl |-> <<BaseProb + a, 0, BaseProb + b>>, IsBestMove |-> FALSE] :
      c \in {"White", "Black"},
      a \in Deltas, b \in Deltas }

ClassifyInit ==
    /\ wire = NoWire /\ conc = NoCalls /\ ret = NoReturn /\ ws = NoWs
    /\ pgn = [kind |-> "empty", n |-> 0, illegal |-> 0]
    /\ pc = "classify" /\ i = 0 /\ uciMoves = <<>> /\ closeFrom = "defer"
    /\ prev = StartPrev /\ analysis \in ClassifyInputs
    /\ ready = FALSE /\ lastScore = 0 /\ bestWdl = NoWdl /\ bestMove = ""
    /\ result = NoResult
    /\ proc = "none" /\ stdin = <<>> /\ stdout = <<>> /\ engSearch = Idle /\ engPos = 0
    /\ responses = <<>> /\ respClosed = FALSE
    /\ resultsClosed = FALSE /\ errBuf = <<>> /\ errClosed = FALSE
    /\ consumer = "ranging" /\ received = <<>> /\ gotErr = "unread"
    /\ quitCount = 0 /\ waitCount = 0 /\ goInFlight = 0
    /\ goLog = <<>> /\ inLog = <<>> /\ outLog = <<>>
    /\ aborted = FALSE /\ writeFailed = FALSE /\ errLog = <<>> /\ emitted = <<>>

\* analysis.Classification = analysisOpts.MoveClassifier.ClassifyMove(analysis)
Classify ==
    /\ pc = "classify"
    /\ analysis' = analysis @@ ("Classification" :> ClassifyMove(analysis))
    /\ pc' = "classified"
    /\ UNCHANGED <<wire, conc, ret, ws, pgn, i, uciMoves, closeFrom, prev>>
    /\ UNCHANGED <<evalVars, engVars, respVars, chanVars, consVars, histVars>>

ClassifySpec == ClassifyInit /\ [][Classify]_vars

(***************************************************************************)
(* Two concurrent calls of AnalyzeChessGameStreaming.  conc.sess[c] is the *)
(* engine session of call c (0: none), conc.in[s], conc.out[s] and         *)
(* conc.resp[s] are the stdin pipe, the stdout pipe and the responses      *)
(* channel of session s.  A command carries the call that wrote it; a line *)
(* carries the session that printed it and the call whose command it       *)
(* answers.                                                                *)
(***************************************************************************)
ConcRest ==
    /\ UNCHANGED <<wire, ret, ws, pgn, pc, i, uciMoves, closeFrom, prev, analysis>>
    /\ UNCHANGED <<evalVars, engVars, respVars, chanVars, consVars, histVars>>

\* The call: an empty PGN returns at once, any other PGN starts the goroutine.
ConcCall(c) ==
    /\ conc.st[c] = "idle"
    /\ \E e \in BOOLEAN :
         conc' = [conc EXCEPT !.empty[c] = e,
                              !.st[c] = IF e THEN "done" ELSE "spawn"]
    /\ ConcRest

\* One engine of the package, started by the first call and used by all.
ConcNewEngine_Shared(c) ==
    /\ conc.st[c] = "spawn"
    /\ conc' = [conc EXCEPT !.n = 1, !.sess[c] = 1, !.st[c] = "run"]
    /\ ConcRest

\* engine, err := NewStockfishEngine(): a new process, new pipes, a new
\* responses channel, held in a local of the goroutine.
ConcNewEngine(c) ==
    /\ conc.st[c] = "spawn"
    /\ conc' = [conc EXCEPT !.n = @ + 1, !.sess[c] = conc.n + 1, !.st[c] = "run"]
    /\ ConcRest

\* e.sendCommand: fmt.Fprintln(e.stdin, cmd) on the call's own engine.
ConcSend(c) ==
    /\ conc.st[c] = "run"
    /\ conc.written[c] < MaxCmds
    /\ conc' = [conc EXCEPT !.written[c] = @ + 1,
                            !.in[conc.sess[c]] = Append(@, c)]
    /\ ConcRest

\* The engine process of session s reads a command and prints its answer.
ConcEngine(s) ==
    /\ conc.in[s] # <<>>
    /\ conc' = [conc EXCEPT !.in[s] = Tail(@),
                            !.out[s] = Append(@, <<s, Head(conc.in[s])>>)]
    /\ ConcRest

\* e.readOutput of session s: e.responses <- e.stdout.Text()
ConcReader(s) ==
    /\ conc.out[s] # <<>>
    /\ conc' = [conc EXCEPT !.out[s] = Tail(@),
                            !.resp[s] = Append(@, Head(conc.out[s]))]
    /\ ConcRest

\* The evaluator of call c receives from its engine's responses channel.
ConcRead(c) ==
    /\ conc.st[c] = "run"
    /\ conc.resp[conc.sess[c]] # <<>>
    /\ conc' = [conc EXCEPT !.resp[conc.sess[c]] = Tail(@),
                            !.took[c] = Append(@, Head(conc.resp[conc.sess[c]]))]
    /\ ConcRest

\* defer engine.Close(), and the goroutine ends.
ConcClose(c) ==
    /\ conc.st[c] = "run"
    /\ conc' = [conc EXCEPT !.st[c] = "done"]
    /\ ConcRest

ConcInit == Init /\ pgn = [kind |-> "empty", n |-> 0, illegal |-> 0]

ConcNext ==
    \E c \in Calls :
        \/ ConcCall(c)
        \/ ConcNewEngine(c)
        \/ ConcSend(c)
        \/ ConcEngine(c)
        \/ ConcReader(c)
        \/ ConcRead(c)
        \/ ConcClose(c)

ConcSpec == ConcInit /\ [][ConcNext]_vars

(***************************************************************************)
(* The websocket handler.  ws.an is the list of analyses started, each     *)
(* with the depth asked for (`has` false: the message has no depth member, *)
(* or the call has no WithDepth option), the depth the pipeline got, the   *)
(* depths of the go commands it wrote (gos), the records it has still to   *)
(* produce (left), whether the next record is ready (searched), and its    *)
(* forwarder (fw).  ws.log lists, in the order written, the analysis of    *)
(* each record written to the connection.  Runs without a terminal error.  *)
(***************************************************************************)
Analyses == {1, 2}

\* Depth members tried in an analyze message.
ReqDepths == {-1, 0, 1, 2, 5, 29, 30, 31, 32}

\* json.Unmarshal into Message: a missing depth member leaves the zero value.
DecodeDepth(has, d) == IF has THEN d ELSE 0

\* depth := message.Depth; if depth <= 0 { depth = 5 }; if depth > 30 { depth = 30 }
HandlerDepth_NoClamp(d) == IF d <= 0 THEN 5 ELSE d
HandlerDepth(d) == IF d <= 0 THEN 5 ELSE IF d > 30 THEN 30 ELSE d

defaultAnalyzeChessGameOptions == [Depth |-> 2]

\* analysisOpts := defaultAnalyzeChessGameOptions; for _, opt := range opts
\* { opt(&analysisOpts) }, every opt a WithDepth(d).
RECURSIVE ApplyOptions(_, _)
ApplyOptions(o, opts) ==
    IF opts = <<>> THEN o
    ELSE ApplyOptions([o EXCEPT !.Depth = Head(opts)], Tail(opts))

WsRest ==
    /\ UNCHANGED <<wire, conc, ret, pgn, pc, i, uciMoves, closeFrom, prev, analysis>>
    /\ UNCHANGED <<evalVars, engVars, respVars, chanVars, consVars, histVars>>

\* An analyze message: the handler works out the depth, calls
\* AnalyzeChessGameStreaming with WithDepth(depth), starts the forwarder and
\* goes back to ReadMessage.
WsAnalyze ==
    /\ Len(ws.an) < Cardinality(Analyses)
    /\ \E has \in BOOLEAN : \E d \in (IF has THEN ReqDepths ELSE {0}) :
         LET depth == HandlerDepth(DecodeDepth(has, d))
             opts == ApplyOptions(defaultAnalyzeChessGameOptions, <<depth>>)
         IN ws' = [ws EXCEPT !.an = Append(@,
                      [from |-> "ws", has |-> has, req |-> d, depth |-> opts.Depth,
                       gos |-> <<>>, left |-> MaxRecs, searched |-> FALSE,
                       fw |-> "ranging"])]
    /\ WsRest

\* AnalyzeChessGameStreaming(pgn) called with no option.
LibAnalyze ==
    /\ Len(ws.an) < Cardinality(Analyses)
    /\ LET opts == ApplyOptions(defaultAnalyzeChessGameOptions, <<>>)
       IN ws' = [ws EXCEPT !.an = Append(@,
                    [from |-> "lib", has |-> FALSE, req |-> 0, depth |-> opts.Depth,
                     gos |-> <<>>, left |-> MaxRecs, searched |-> FALSE,
                     fw |-> "none"])]
    /\ WsRest

\* The pipeline of analysis a evaluates its next ply:
\* e.sendCommand(fmt.Sprintf("go depth %d", depth))
WsSearch(a) ==
    /\ a <= Len(ws.an)
    /\ ws.an[a].left > 0 /\ ~ws.an[a].searched
    /\ ws' = [ws EXCEPT !.an[a].gos = Append(@, ws.an[a].depth),
                        !.an[a].searched = TRUE]
    /\ WsRest

\* The caller of the library takes the record.
LibReceive(a) ==
    /\ a <= Len(ws.an)
    /\ ws.an[a].from = "lib" /\ ws.an[a].searched
    /\ ws' = [ws EXCEPT !.an[a].left = @ - 1, !.an[a].searched = FALSE]
    /\ WsRest

\* for move := range movesChan: the forwarder receives the record, marshals
\* it and enters client.conn.WriteJSON.
WsForwardBegin(a) ==
    /\ a <= Len(ws.an)
    /\ ws.an[a].fw = "ranging" /\ ws.an[a].searched
    /\ ws' = [ws EXCEPT !.an[a].left = @ - 1, !.an[a].searched = FALSE,
                        !.an[a].fw = "writing"]
    /\ WsRest

\* WriteJSON returns: the record is on the connection, or the write failed
\* and the forwarder returns.
WsForwardEnd(a) ==
    /\ a <= Len(ws.an)
    /\ ws.an[a].fw = "writing"
    /\ \E written \in BOOLEAN :
         ws' = IF written
               THEN [ws EXCEPT !.an[a].fw = "ranging", !.log = Append(@, a)]
               ELSE [ws EXCEPT !.an[a].fw = "done"]
    /\ WsRest

\* movesChan is closed: the range ends, errChan yields nil.
WsForwardDone(a) ==
    /\ a <= Len(ws.an)
    /\ ws.an[a].fw = "ranging" /\ ws.an[a].left = 0
    /\ ws' = [ws EXCEPT !.an[a].fw = "done"]
    /\ WsRest

WsInit == Init /\ pgn = [kind |-> "empty", n |-> 0, illegal |-> 0]

WsNext ==
    \/ WsAnalyze
    \/ LibAnalyze
    \/ \E a \in Analyses :
         \/ WsSearch(a)
         \/ LibReceive(a)
         \/ WsForwardBegin(a)
         \/ WsForwardEnd(a)
         \/ WsForwardDone(a)

WsSpec == WsInit /\ [][WsNext]_vars

(***************************************************************************)
(* JSON serialisation of a record (MoveAnalysis.MarshalJSON).              *)
(***************************************************************************)
\* The MoveClassification constants in the order of their const block: the
\* value of a constant is its position, counted from zero (iota).
ClassificationConsts ==
    <<"Neutral", "Blunder", "Questionable", "Good", "Excellent", "Winning", "Best">>

EnumOf(c) == (CHOOSE k \in 1..Len(ClassificationConsts) : ClassificationConsts[k] = c) - 1

\* func (c MoveClassification) String(): the c-th entry of a literal slice.
ClassificationNames ==
    <<"Neutral", "Blunder", "Questionable", "Good", "Excellent", "Winning", "Best">>

String(c) == ClassificationNames[EnumOf(c) + 1]

\* var classificationAnnotations; the symbol of Winning is U+2A72 in the
\* source and is written here in ASCII.
classificationAnnotations ==
    [c \in {ClassificationConsts[k] : k \in 1..Len(ClassificationConsts)} |->
        CASE c = "Blunder" -> "??"
          [] c = "Questionable" -> "?"
          [] c = "Neutral" -> ""
          [] c = "Good" -> "!"
          [] c = "Excellent" -> "!!"
          [] c = "Winning" -> "+/="
          [] c = "Best" -> "*"]

\* A serialiser that classifies the record again instead of reading the field.
MarshalJSON_Recompute(m) ==
    [classification |-> String(ClassifyMove(m)),
     classificationSymbol |-> classificationAnnotations[ClassifyMove(m)]]

\* The two classification members of the JSON object; the other members are
\* copies of the record's fields.
MarshalJSON(m) ==
    [classification |-> String(m.Classification),
     classificationSymbol |-> classificationAnnotations[m.Classification]]

\* Records to serialise: any stored Classification with any probabilities, as a
\* caller (or a test) may build them.
MarshalInputs ==
    { r @@ ("Classification" :> c) :
        r \in ClassifyInputs,
        c \in {ClassificationConsts[k] : k \in 1..Len(ClassificationConsts)} }

MarshalInit ==
    /\ wire = NoWire /\ conc = NoCalls /\ ret = NoReturn /\ ws = NoWs
    /\ pgn = [kind |-> "empty", n |-> 0, illegal |-> 0]
    /\ pc = "marshal" /\ i = 0 /\ uciMoves = <<>> /\ closeFrom = "defer"
    /\ prev = StartPrev /\ analysis \in MarshalInputs
    /\ ready = FALSE /\ lastScore = 0 /\ bestWdl = NoWdl /\ bestMove = ""
    /\ result = NoResult
    /\ proc = "none" /\ stdin = <<>> /\ stdout = <<>> /\ engSearch = Idle /\ engPos = 0
    /\ responses = <<>> /\ respClosed = FALSE
    /\ resultsClosed = FALSE /\ errBuf = <<>> /\ errClosed = FALSE
    /\ consumer = "ranging" /\ received = <<>> /\ gotErr = "unread"
    /\ quitCount = 0 /\ waitCount = 0 /\ goInFlight = 0
    /\ goLog = <<>> /\ inLog = <<>> /\ outLog = <<>>
    /\ aborted = FALSE /\ writeFailed = FALSE /\ errLog = <<>> /\ emitted = <<>>

\* jsonData, err := json.Marshal(move)
Marshal ==
    /\ pc = "marshal"
    /\ wire' = MarshalJSON(analysis)
    /\ pc' = "marshalled"
    /\ UNCHANGED <<conc, ret, ws, pgn, i, uciMoves, closeFrom, prev, analysis>>
    /\ UNCHANGED <<evalVars, engVars, respVars, chanVars, consVars, histVars>>

MarshalSpec == MarshalInit /\ [][Marshal]_vars


\* ================================================================ properties
Closing == {"closeQuit", "closeWait", "closeErrc", "closeResults", "done"}
Returned == {"closeErrc", "closeResults", "done"}
PlayedMove == uciMoves[Len(uciMoves)]
IsPrefix(a, b) == Len(a) <= Len(b) /\ SubSeq(b, 1, Len(a)) = a

\* Score and WDL of the last line of a log that carries one (0 when none).
RECURSIVE LastCp(_)
LastCp(log) ==
    IF log = <<>> THEN 0
    ELSE IF log[Len(log)].hasCp THEN log[Len(log)].cp
    ELSE LastCp(SubSeq(log, 1, Len(log) - 1))
RECURSIVE LastWdl(_)
LastWdl(log) ==
    IF log = <<>> THEN NoWdl
    ELSE IF log[Len(log)].hasWdl THEN log[Len(log)].wdl
    ELSE LastWdl(SubSeq(log, 1, Len(log) - 1))

\* C1: while the analysis has not failed (every search ended with its
\* bestmove line, every write succeeded), record k sent is the record of ply
\* k, and a run on a valid PGN that ends without an error has sent one
\* record per ply of the main line, whatever best-move text the engine printed.
C1_OneRecordPerPly ==
    (~aborted /\ ~writeFailed) =>
        /\ \A k \in 1..Len(emitted) : emitted[k] = k
        /\ (pc = "done" /\ pgn.kind = "valid" /\ errLog = <<>>) => Len(emitted) = pgn.n

\* C2: a started engine is closed exactly once on every exit path: never a
\* second quit or wait, the wait after the quit, and both done by the time
\* the goroutine runs its channel closes; an engine never started is not closed.
C2_ClosedExactlyOnce ==
    /\ quitCount <= 1 /\ waitCount <= quitCount
    /\ (proc = "none" => quitCount = 0)
    /\ (pc \in Returned /\ proc # "none") => (quitCount = 1 /\ waitCount = 1)
C2_Witness ==
    /\ pc = "done" /\ proc # "none" /\ quitCount = 1 /\ waitCount = 1
    /\ errLog = <<"error moving in running game">> /\ emitted = <<1>>

\* C3: once a search loop has ended because the engine's output closed
\* before a bestmove line, no record is offered on the record channel and
\* the run ends with exactly the analysis error.
C3_StreamCloseIsFatal ==
    aborted => /\ pc # "send"
               /\ (pc = "done" => errLog = <<"analysis error">>)

\* C4: at most one value is ever sent on the error channel; a run that ended
\* after a fatal failure (empty PGN, start-up, parse, replay, a search cut
\* short by the engine's output closing) has sent exactly one error, and a
\* run that ended without failure has sent none.
FatalFailure ==
    \/ pgn.kind = "empty"
    \/ proc = "none" \/ closeFrom = "init"
    \/ pgn.kind = "invalid"
    \/ (pgn.illegal # 0 /\ i = pgn.illegal - 1)
    \/ aborted
C4_OneTerminalError ==
    /\ Len(errLog) <= 1
    /\ Len(errBuf) <= ErrCap
    /\ (pc = "done" /\ FatalFailure) => (Len(errLog) = 1 /\ errClosed)
    /\ (pc = "done" /\ ~FatalFailure) => (errLog = <<>> /\ errBuf = <<>> /\ errClosed)

\* C5: for the empty PGN no engine process is ever started, no record is
\* sent, and once the call has returned both channels are closed with
\* exactly the one error "empty PGN" sent.
C5_EmptyPGN ==
    pgn.kind = "empty" =>
        /\ proc = "none" /\ emitted = <<>> /\ received = <<>>
        /\ (pc # "call" => pc = "done" /\ resultsClosed /\ errClosed
                           /\ errLog = <<"empty PGN">>)
        /\ (consumer = "done" => gotErr = "empty PGN")
C5_Witness ==
    pgn.kind = "empty" /\ consumer = "done" /\ gotErr = "empty PGN" /\ received = <<>>

\* C6: once a position or go write has failed, no record is offered on the
\* record channel and the run ends with an error.
C6_WriteFailureIsFatal ==
    writeFailed => /\ pc # "send"
                   /\ (pc = "done" => errLog # <<>>)

\* C7: once the consumer has stopped receiving, the pipeline goroutine
\* eventually exits with the engine closed (quit written, process waited).
C7_DisconnectTearsDown ==
    (consumer = "gone") ~> (pc = "done" /\ (proc # "none" => waitCount = 1))

\* C8: at most one go command is written and not yet answered by a bestmove
\* line, both as the session counts them and as the engine sees them.
GoPending ==
    Len(SelectSeq(stdin, LAMBDA c : c.cmd = "go")) + (IF engSearch.on THEN 1 ELSE 0)
C8_OneSearchInFlight == goInFlight <= 1 /\ GoPending <= 1
C8_Witness == pc = "await2" /\ goInFlight = 1 /\ Len(goLog) = 2 /\ engSearch.on

\* C9: a ply issues one go when the played move is the first search's best
\* move and otherwise two, the second with searchmoves <played move>; never more.
C9_GoCount ==
    /\ Len(goLog) <= 2
    /\ pc = "build" =>
          goLog = IF result.BestMove = PlayedMove THEN <<"">> ELSE <<"", PlayedMove>>
C9_Witness ==
    /\ pc = "build" /\ i = 1 /\ emitted = <<1>>
    /\ result.BestMove = PlayedMove /\ goLog = <<"">>

\* C10: what a search records is the score of the last score line and the
\* WDL of the last wdl line it consumed (zero when it consumed none), and it
\* consumes the engine's lines in the order the engine printed them.
C10_LastEstimateWins ==
    /\ pc \in {"await1", "search1Done"} =>
          /\ lastScore = LastCp(inLog[1]) /\ bestWdl = LastWdl(inLog[1])
          /\ IsPrefix(inLog[1], outLog)
    /\ pc = "await2" =>
          /\ result.Score = LastCp(inLog[2]) /\ result.Wdl = LastWdl(inLog[2])
          /\ IsPrefix(inLog[2], outLog)
    /\ pc = "build" =>
          /\ result.BestMoveScore = LastCp(inLog[1])
          /\ result.Score = LastCp(inLog[Len(inLog)])
          /\ result.Wdl = LastWdl(inLog[Len(inLog)])
C10_Witness ==
    /\ pc = "build" /\ Len(inLog) = 2 /\ ~aborted
    /\ Len(inLog[1]) = 3 /\ inLog[1][1].cp = -35 /\ inLog[1][2].cp = 20
    /\ Len(inLog[2]) = 3 /\ inLog[2][1].cp = 20 /\ inLog[2][2].cp = -35
    /\ result.BestMoveScore = 20 /\ result.Score = -35 /\ result.Wdl = <<550, 300, 150>>

\* C11: when the played move is the first search's best move, the result
\* handed back carries, as the played move's score and win/draw/loss values,
\* the best-move score and the last score and WDL the first search printed.
C11_BestMoveReusesFirstSearch ==
    (pc = "build" /\ result.BestMove = PlayedMove) =>
        /\ Len(inLog) = 1
        /\ result.Score = result.BestMoveScore
        /\ result.Score = LastCp(inLog[1])
        /\ result.Wdl = LastWdl(inLog[1])
C11_Witness ==
    /\ pc = "build" /\ result.BestMove = PlayedMove
    /\ result.Score = -35 /\ result.Wdl = <<550, 300, 150>>

\* C12: sign convention of stored evaluations: the record of a White move
\* stores the score and win/draw/loss values the evaluation returned as the
\* engine printed them; the record of a Black move stores the negated score
\* and the win and loss values swapped, draw unchanged.
C12_SignConvention ==
    [][ (pc = "build" /\ pc' = "send") =>
          IF analysis.Color = "White"
          THEN /\ analysis'.Score = result.Score
               /\ analysis'.Wdl = result.Wdl
          ELSE /\ analysis'.Score = 0 - result.Score
               /\ analysis'.Wdl = <<result.Wdl[3], result.Wdl[2], result.Wdl[1]>>
      ]_vars

\* C13: once PushMove has rejected the move of ply k, the records sent are
\* exactly those of plies 1..k-1, the run is closing with one replay error
\* delivered, and neither a position command nor a search for ply k was
\* written to the engine.
ReplayRejected == pgn.kind = "valid" /\ pgn.illegal > 0 /\ ready /\ pc \in Closing
C13_ReplayFailureIsFatal ==
    (ReplayRejected /\ ~aborted /\ ~writeFailed) =>
        /\ emitted = [k \in 1..(pgn.illegal - 1) |-> k]
        /\ i = pgn.illegal - 1
        /\ Len(uciMoves) = pgn.illegal - 1
        /\ goLog = <<>>
        /\ \A n \in 1..Len(stdin) : stdin[n].cmd \notin {"position", "go"}
        /\ engPos < pgn.illegal - 1 \/ engPos = 0
        /\ errLog = <<"error moving in running game">>

\* C14: when the engine process cannot be started, or its output closes
\* before a readyok line was read, the session never becomes ready, the loop
\* over the plies is never entered, no record is sent, and by the time the
\* goroutine closes its channels exactly one error, the start-up error, has
\* been put on the error channel.
StartupFailed == pgn.kind # "empty" /\ ~ready /\ pc \in Closing
C14_StartupFailure ==
    StartupFailed =>
        /\ emitted = <<>> /\ received = <<>>
        /\ i = 0 /\ uciMoves = <<>>
        /\ proc = "none" \/ closeFrom = "init"
        /\ errLog \in {<<>>, <<"failed to initialize Stockfish">>}
        /\ pc \in Returned => errLog = <<"failed to initialize Stockfish">>
C14_Witness ==
    /\ pc = "done" /\ closeFrom = "init" /\ proc = "exited" /\ ~ready
    /\ emitted = <<>> /\ errLog = <<"failed to initialize Stockfish">>

\* C15: handshake ordering: the first thing written to a started engine is
\* uci, the four setoption commands (the last one UCI_ShowWDL true) and
\* isready, in that order; the session becomes ready only in a step that
\* reads a readyok line; and whenever a position or go command is written
\* the session was ready before.
Written(c) == <<c.cmd, c.arg>>
C15_HandshakeOrdering ==
    [][ /\ (pc = "initialize" /\ pc' # pc /\ proc = "running") =>
              /\ stdin = <<>>
              /\ [n \in 1..Len(stdin') |-> Written(stdin'[n])] =
                     << <<"uci", "">>,
                        <<"setoption", "Hash 128">>,
                        <<"setoption", "Threads 4">>,
                        <<"setoption", "Ponder false">>,
                        <<"setoption", "UCI_ShowWDL true">>,
                        <<"isready", "">> >>
        /\ (~ready /\ ready') =>
              /\ pc = "awaitReady"
              /\ responses # <<>> /\ Head(responses).kind = "readyok"
              /\ responses' = Tail(responses)
        /\ \A n \in 1..Len(stdin') :
              stdin'[n].cmd \in {"position", "go"} => ready
      ]_vars
C15_Witness ==
    /\ ready /\ pc = "await1"
    /\ \E n \in 1..Len(stdin) : stdin[n].cmd = "go"

\* C16: once the engine process has died the reader reaches end of stream,
\* closes the response channel and takes no further step, and a pipeline
\* waiting for readyok or for a bestmove line eventually leaves that wait.
C16_ReaderReleasesWaiters ==
    /\ (proc = "exited") ~> respClosed
    /\ [](respClosed => ~ENABLED Reader)
    /\ (proc = "exited" /\ pc = "awaitReady") ~> (pc # "awaitReady")
    /\ (proc = "exited" /\ pc = "await1") ~> (pc # "await1")
    /\ (proc = "exited" /\ pc = "await2") ~> (pc # "await2")
C16_Witness ==
    /\ proc = "exited" /\ respClosed /\ aborted
    /\ pc = "search1Done" /\ bestMove = ""

\* C17: Close is idempotent: a second Close on a closed session writes no
\* further quit and does not wait on the process again.
C17_CloseIdempotent ==
    pc = "closedAgain" => (quitCount = 1 /\ waitCount = 1)

\* C18: a consumer that ranges over the record channel and then reads the
\* error channel has, when it reads an error, received every record sent
\* before the failure, in ply order, and reads the error only after the
\* record channel was closed; what it received is never taken back.
C18_RecordsThenError ==
    /\ [](/\ \A j, k \in 1..Len(received) : j < k => received[j] < received[k]
          /\ gotErr \notin {"unread", "nil"} =>
                /\ consumer = "done" /\ resultsClosed
                /\ received = emitted
                /\ errLog = <<gotErr>>)
    /\ [][IsPrefix(received, received') /\ IsPrefix(emitted, emitted')]_vars
C18_Witness ==
    /\ consumer = "done" /\ gotErr = "error moving in running game"
    /\ received = <<1>> /\ emitted = <<1>>

\* C19 (as stated): for every record about to be sent, IsBestMove is true
\* exactly when the stored move text equals the stored best-move text.
C19_IsBestIffStoredTextsEqual ==
    pc = "send" => (analysis.IsBestMove <=> analysis.MoveText = analysis.BestMove)

\* C19 (amended): for every record about to be sent, IsBestMove is true
\* exactly when the stored best-move text equals the UCI text of the played
\* move, the last element of the accumulated move list.
C19_IsBestIffUciTextsEqual ==
    pc = "send" => (analysis.IsBestMove <=> analysis.BestMove = PlayedMove)
C19_Witness ==
    /\ pc = "send" /\ analysis.IsBestMove
    /\ analysis.BestMove = "e2e4" /\ analysis.MoveText = "e4"

\* C20: every record about to be sent whose IsBestMove is true is classified
\* Best, whatever its win and loss probability deltas are.
C20_BestMoveIsBest ==
    (pc = "send" /\ analysis.IsBestMove) => analysis.Classification = "Best"
C20_Witness ==
    /\ pc = "send" /\ analysis.IsBestMove /\ analysis.Classification = "Best"
    /\ ByThresholds(WinProbDelta(analysis), LossProbDelta(analysis)) = "Blunder"

Swap(wdl) == <<wdl[3], wdl[2], wdl[1]>>
Mirror(r) ==
    [r EXCEPT !.Color = IF @ = "White" THEN "Black" ELSE "White",
              !.Wdl = Swap(@),
              !.Previous = [@ EXCEPT !.Wdl = Swap(@)]]
C22_MoverOwnDeltas ==
    pc = "classified" =>
        LET r == [f \in DOMAIN analysis \ {"Classification"} |-> analysis[f]]
            dWin == IF r.Color = "White" THEN r.Wdl[1] - r.Previous.Wdl[1]
                                         ELSE r.Wdl[3] - r.Previous.Wdl[3]
            dLoss == IF r.Color = "White" THEN r.Wdl[3] - r.Previous.Wdl[3]
                                          ELSE r.Wdl[1] - r.Previous.Wdl[1]
        IN /\ analysis.Classification = ByThresholds(dWin, dLoss)
           /\ ClassifyMove(Mirror(r)) = analysis.Classification
C22_Witness ==
    /\ pc = "classified" /\ analysis.Color = "Black"
    /\ analysis.Wdl = <<BaseProb, 0, BaseProb - 200>>
    /\ analysis.Classification = "Blunder"

\* C23: baseline chaining: the record of the first ply carries the
\* starting-position constants as its previous score and WDL; the record of
\* every later ply carries the played-move score and WDL of the record of
\* the ply just before it, which is the record sent last.
C23_BaselineChaining ==
    (pc = "send" /\ ~aborted /\ ~writeFailed) =>
        IF analysis.ply = 1
        THEN analysis.Previous = StartPrev
        ELSE /\ emitted # <<>>
             /\ emitted[Len(emitted)] = analysis.ply - 1
             /\ analysis.Previous = prev

\* C24: every go command written for the ply of 0-based index i comes right
\* after a position command that lists exactly the UCI texts of plies 0..i-1
\* in game order (none for i = 0), for the first search and, with the played
\* move as searchmoves, for the second.
PliesBefore == [k \in 1..i |-> UciOf(k)]
Appended == SubSeq(stdin', Len(stdin) + 1, Len(stdin'))
C24_PositionBeforeEachSearch ==
    [][ (Len(stdin') > Len(stdin) /\ pc \in {"analyze", "search1Done"}) =>
          /\ Len(Appended) = 2
          /\ Appended[1].cmd = "position"
          /\ Appended[1].moves = PliesBefore
          /\ Appended[2].cmd = "go"
          /\ Appended[2].arg = (IF pc = "analyze" THEN "" ELSE UciOf(i + 1))
      ]_vars
C24_Witness ==
    /\ i = 1 /\ Len(stdin) = 2
    /\ stdin[1].cmd = "position" /\ stdin[1].moves = <<"e2e4">>
    /\ stdin[2].cmd = "go" /\ stdin[2].arg = "e7e5"

\* C25: the record built from an evaluation carries, next to the best
\* move's text and SAN, the first search's best-move score in its best-move
\* score field, relative to White (as returned for a White move, negated
\* for a Black move).
C25_BestMoveScoreStored ==
    [][ (pc = "build" /\ pc' = "send") =>
          /\ analysis'.BestMove = result.BestMove
          /\ analysis'.BestMoveScore =
                 (IF analysis.Color = "White" THEN result.BestMoveScore
                                              ELSE 0 - result.BestMoveScore)
      ]_vars

\* C26: determinism: what the pipeline does with a ply is a function of the
\* PGN, of the lines the engine answered to that ply's searches and of the
\* record sent before, and of nothing else (not of the interleaving with the
\* reader, the engine or the consumer): whether a record is sent, its move
\* text and its classification are those computed from these inputs alone.
\* Two runs given the same PGN and the same lines so send the same records.
BestOf(log) ==
    IF log # <<>> /\ log[Len(log)].kind = "bestmove" THEN log[Len(log)].move ELSE ""
ExpectedWdl ==
    IF BestOf(inLog[1]) = UciOf(i + 1) THEN LastWdl(inLog[1])
    ELSE LastWdl(inLog[Len(inLog)])
ExpectedRecord ==
    [Color |-> IF i % 2 = 0 THEN "White" ELSE "Black",
     IsBestMove |-> BestOf(inLog[1]) = UciOf(i + 1),
     Wdl |-> ExpectedWdl,
     Previous |-> IF emitted = <<>> THEN StartPrev ELSE prev]
C26_Determinism ==
    [][ pc = "build" /\ pc' # pc =>
          /\ pc' = "send" <=> (BestOf(inLog[1]) = "" \/ UciDecodable(BestOf(inLog[1])))
          /\ pc' = "send" =>
                /\ analysis'.ply = i + 1
                /\ analysis'.MoveText = SanOf(i + 1)
                /\ analysis'.Classification = ClassifyMove(ExpectedRecord)
      ]_vars
C26_Witness ==
    /\ pc = "send" /\ analysis.ply = 2 /\ ~analysis.IsBestMove
    /\ analysis.MoveText = "e5" /\ analysis.Classification = "Blunder"

\* C28: the caller's part of AnalyzeChessGameStreaming can always run to its
\* return (for the empty PGN the error goes into the buffer of errc), and
\* when it returns no engine process exists, nothing was written or read;
\* process start, handshake and searches all happen after the return.
C28_CallerNeverBlocks ==
    /\ [](pc = "call" =>
            /\ ENABLED Call
            /\ proc = "none" /\ stdin = <<>> /\ responses = <<>>
            /\ ~ready /\ goInFlight = 0)
    /\ [][ (pc = "call" /\ pc' # "call") =>
              /\ proc' = "none" /\ stdin' = <<>> /\ responses' = <<>>
              /\ pgn.kind = "empty" =>
                    (errBuf' = <<"empty PGN">> /\ resultsClosed' /\ errClosed')
              /\ pgn.kind # "empty" =>
                    (pc' = "newEngine" /\ ~resultsClosed' /\ ~errClosed')
       ]_vars
C28_Witness ==
    /\ pc = "newEngine" /\ proc = "none" /\ stdin = <<>>
    /\ consumer = "ranging" /\ ~resultsClosed /\ ~errClosed

\* C29: the record of the ply of 0-based index k has move number k/2 + 1
\* (at least 1), colour White for even k and Black for odd k, and as move
\* text the non-empty SAN of the played move.
C29_NumberColourText ==
    pc = "send" =>
        LET k == analysis.ply - 1 IN
        /\ k = i /\ k >= 0
        /\ analysis.MoveNumber = (k \div 2) + 1 /\ analysis.MoveNumber >= 1
        /\ analysis.Color = (IF k % 2 = 0 THEN "White" ELSE "Black")
        /\ analysis.MoveText = SanOf(k + 1) /\ analysis.MoveText # ""
C29_Witness ==
    /\ pc = "send" /\ analysis.ply = 2 /\ analysis.MoveNumber = 1
    /\ analysis.Color = "Black" /\ analysis.MoveText = "e5"
    /\ emitted = <<1>>

(***************************************************************************)
(* C30: the JSON object of a record carries the name of the record's       *)
(* stored Classification and the annotation symbol that belongs to it      *)
(* (Blunder "??", Questionable "?", Neutral "", Good "!", Excellent "!!",  *)
(* Best "*"), whatever classification the record's probabilities would     *)
(* give.                                                                   *)
(***************************************************************************)
SymbolTable ==
    [c \in {"Blunder", "Questionable", "Neutral", "Good", "Excellent", "Best"} |->
        CASE c = "Blunder" -> "??"
          [] c = "Questionable" -> "?"
          [] c = "Neutral" -> ""
          [] c = "Good" -> "!"
          [] c = "Excellent" -> "!!"
          [] c = "Best" -> "*"]

C30_JsonLabelAndSymbol ==
    pc = "marshalled" =>
        /\ wire.classification = analysis.Classification
        /\ analysis.Classification \in DOMAIN SymbolTable =>
               wire.classificationSymbol = SymbolTable[analysis.Classification]

\* A record stored as a Blunder whose probabilities classify as Good has been
\* serialised.
C30_Witness ==
    /\ pc = "marshalled"
    /\ analysis.Classification = "Blunder"
    /\ ClassifyMove(analysis) = "Good"
    /\ wire = [classification |-> "Blunder", classificationSymbol |-> "??"]

(***************************************************************************)
(* C27: of two concurrent calls, each call with a non-empty PGN has an     *)
(* engine session of its own (an empty-PGN call has none); every line a    *)
(* call's evaluator consumed was printed by that call's engine in answer   *)
(* to that call's command, and no command of one call is in the stdin of   *)
(* the other call's engine.                                                *)
(***************************************************************************)
C27_OwnSession ==
    /\ \A c \in Calls :
         /\ conc.st[c] \in {"run", "done"} /\ ~conc.empty[c] => conc.sess[c] # 0
         /\ conc.empty[c] => conc.sess[c] = 0
         /\ \A k \in 1..Len(conc.took[c]) : conc.took[c][k] = <<conc.sess[c], c>>
    /\ \A c \in Calls : \A d \in Calls \ {c} :
         /\ conc.sess[c] # 0 => conc.sess[c] # conc.sess[d]
         /\ conc.sess[d] # 0 =>
              \A k \in 1..Len(conc.in[conc.sess[d]]) : conc.in[conc.sess[d]][k] # c

\* Both calls are running, each has consumed a line and has a command pending.
C27_Witness ==
    \A c \in Calls :
        /\ conc.st[c] = "run"
        /\ conc.took[c] # <<>>
        /\ conc.in[conc.sess[c]] # <<>>

(***************************************************************************)
(* C38: when the engine's best-move text is not empty and does not decode, *)
(* the step that would build the record sends no record and no error,      *)
(* keeps the previous-ply baseline and goes on to the next ply with the    *)
(* skipped ply's move still in the move list; the position command of the  *)
(* next ply lists that move.                                               *)
(***************************************************************************)
C38_UndecodableBestMoveSkipsPly ==
    [][ /\ (pc = "build" /\ pc' # pc /\ result.BestMove # ""
              /\ ~UciDecodable(result.BestMove)) =>
            /\ pc' = "loop" /\ i' = i + 1
            /\ emitted' = emitted /\ received' = received
            /\ errLog' = errLog /\ errBuf' = errBuf
            /\ prev' = prev
            /\ uciMoves' = uciMoves /\ uciMoves[i + 1] = UciOf(i + 1)
        /\ (pc = "analyze" /\ Len(stdin') > Len(stdin)) =>
            /\ Appended[1].cmd = "position"
            /\ \A k \in 1..i : Appended[1].moves[k] = UciOf(k)
      ]_vars

\* Ply 1 was skipped (no record, no error, the starting baseline kept) and
\* the position command of ply 2 lists its move.
C38_Witness ==
    /\ i = 1 /\ emitted = <<>> /\ errLog = <<>> /\ prev = StartPrev
    /\ ~aborted /\ ~writeFailed
    /\ Len(stdin) = 2
    /\ stdin[1].cmd = "position" /\ stdin[1].moves = <<"e2e4">>

(***************************************************************************)
(* C36: whenever the record channel is closed, the goroutine has nothing   *)
(* left to do (so every error it sends has been sent), the error channel   *)
(* is closed, and an engine that was started has had its Close return:     *)
(* quit written once, the process waited for once and exited.              *)
(***************************************************************************)
C36_TeardownOrdering ==
    resultsClosed =>
        /\ pc = "done"
        /\ errClosed
        /\ Len(errBuf) + (IF gotErr \in {"unread", "nil"} THEN 0 ELSE 1) = Len(errLog)
        /\ proc # "none" => (quitCount = 1 /\ waitCount = 1 /\ proc = "exited")

\* The consumer saw the record channel closed after a run with an engine
\* that ended with an error still waiting in the error channel.
C36_Witness ==
    /\ consumer = "readErr" /\ resultsClosed
    /\ proc = "exited" /\ quitCount = 1 /\ waitCount = 1
    /\ errClosed /\ Len(errBuf) = 1 /\ emitted = <<1>>

(***************************************************************************)
(* C37: a position or go command of a ply is written only when every       *)
(* record sent so far has been received, all of them records of earlier    *)
(* plies; while a classified record waits to be received it is the only    *)
(* one (every other record sent has been received) and no command is       *)
(* written.                                                                *)
(***************************************************************************)
C37_ConsumerPacing ==
    [][ /\ (Len(stdin') > Len(stdin) /\ pc \in {"analyze", "search1Done"}) =>
            /\ received = emitted
            /\ \A k \in 1..Len(emitted) : emitted[k] <= i
        /\ pc = "send" =>
            /\ received = emitted
            /\ analysis.ply = i + 1
            /\ \A k \in 1..Len(received) : received[k] < analysis.ply
            /\ Len(stdin') <= Len(stdin)
            /\ pc' # "send" => received' = Append(received, analysis.ply)
      ]_vars

\* The commands of ply 2 are written after the record of ply 1 was received.
C37_Witness ==
    /\ i = 1 /\ received = <<1>> /\ emitted = <<1>>
    /\ Len(stdin) = 2 /\ stdin[1].cmd = "position" /\ stdin[2].cmd = "go"

(***************************************************************************)
(* C35: with every runnable goroutine scheduled and a live engine that     *)
(* keeps answering (or has closed its output), a run whose consumer does   *)
(* not stop receiving eventually ends: both channels closed and an engine  *)
(* that was started waited for and exited.                                 *)
(***************************************************************************)
RunEnded ==
    /\ pc = "done" /\ resultsClosed /\ errClosed
    /\ proc # "none" => (proc = "exited" /\ waitCount = 1)

C35_Termination == <>(consumer = "gone" \/ RunEnded)

\* A two-ply run ended with both records received.
C35_Witness ==
    /\ RunEnded /\ consumer # "gone"
    /\ proc = "exited" /\ received = <<1, 2>>

(***************************************************************************)
(* C34: AnalyzeChessGame reads the error channel only after the record     *)
(* channel was closed and every record sent was received; it returns the   *)
(* records of the run in the order sent with a nil error when no error was *)
(* sent, and no records with the error when one was sent; and once the     *)
(* streaming run has ended it returns.                                     *)
(***************************************************************************)
C34_AllOrNothing ==
    /\ [](/\ consumer \in {"readErr", "done"} => (resultsClosed /\ received = emitted)
          /\ ret.returned =>
               /\ consumer = "done"
               /\ \A k \in 1..Len(emitted) : \A j \in 1..Len(emitted) :
                      k < j => emitted[k] < emitted[j]
               /\ IF errLog = <<>>
                  THEN ret.err = "nil" /\ ~ret.isNil /\ ret.moves = emitted
                  ELSE ret.err = errLog[1] /\ ret.isNil /\ ret.moves = <<>>)
    /\ (pc = "done" ~> ret.returned)

\* A record was received, then the run failed: the record is not returned.
C34_Witness ==
    /\ ret.returned /\ emitted = <<1>>
    /\ ret.isNil /\ ret.err = "error moving in running game"

C31_DefaultDepth ==
    \A a \in 1..Len(ws.an) :
        ~ws.an[a].has =>
            /\ ws.an[a].depth = 2
            /\ \A k \in 1..Len(ws.an[a].gos) : ws.an[a].gos[k] = 2

(***************************************************************************)
(* C32: for every analysis started by an analyze message the depth given   *)
(* to the pipeline is between 1 and 30 and is the depth of every go        *)
(* command written: 30 for a requested depth above 30, the handler's       *)
(* default (5) for a depth that is missing, zero or negative, the          *)
(* requested depth otherwise.                                              *)
(***************************************************************************)
C32_DepthClamped ==
    \A a \in 1..Len(ws.an) :
        ws.an[a].from = "ws" =>
            LET asked == DecodeDepth(ws.an[a].has, ws.an[a].req)
                depth == ws.an[a].depth
            IN /\ depth \in 1..30
               /\ \A k \in 1..Len(ws.an[a].gos) : ws.an[a].gos[k] = depth
               /\ asked > 30 => depth = 30
               /\ asked <= 0 => depth = 5
               /\ asked \in 1..30 => depth = asked

\* Depth 32 was asked for and a go command with depth 30 was written; depth
\* -1 was asked for in the other analysis.
C32_Witness ==
    /\ Len(ws.an) = 2
    /\ ws.an[1].from = "ws" /\ ws.an[1].has /\ ws.an[1].req = 32
    /\ ws.an[1].gos = <<30>>
    /\ ws.an[2].from = "ws" /\ ws.an[2].has /\ ws.an[2].req = -1
    /\ ws.an[2].gos # <<>>

(***************************************************************************)
(* C40: on one connection at most one forwarder is inside WriteJSON at any *)
(* time, and the records written for one analysis are not interleaved with *)
(* those of another: once a record of a later analysis is on the           *)
(* connection no record of an earlier one follows.                         *)
(***************************************************************************)
C40_ForwardersSerialized ==
    /\ Cardinality({a \in 1..Len(ws.an) : ws.an[a].fw = "writing"}) <= 1
    /\ \A k \in 1..Len(ws.log) : \A j \in 1..Len(ws.log) :
           k < j => ws.log[k] <= ws.log[j]

====
